---- MODULE Spec2Model ----
(***************************************************************************)
(* Model of qpvk's src/main.c: the start-up sequence of main, the layer    *)
(* and extension negotiation of initialize_instance, the debug messenger,  *)
(* the physical-device selection, the atexit teardown and the Context      *)
(* scaffold (initialize_context / destroy_context).                        *)
(*                                                                         *)
(* C strings are sequences of one-character strings; the names the driver  *)
(* reports (layers, extensions) are compared only with strcmp, so they are *)
(* TLA+ strings.  Unsigned 32-bit identifiers and the value strtol parses  *)
(* are sequences of hexadecimal digits (most significant first, no leading *)
(* zero), so that the width of long and of uint32_t is kept exactly.       *)
(***************************************************************************)
EXTENDS Integers, Sequences, FiniteSets, TLC

\* ---------------------------------------------------------------- bounds
\* longest answer of vkEnumerateInstanceLayerProperties
MaxLayerProps == 3
\* longest answer of vkEnumerateInstanceExtensionProperties
MaxExtProps == 2
\* largest number of physical devices the driver reports
MaxDevices == 2

\* ------------------------------------------------------ program constants
\* const char* layer_names[2]
LayerNamesCap == 2
\* const char* extension_names[16]
ExtensionNamesCap == 16
VK_NULL_HANDLE == "VK_NULL_HANDLE"
NULL == "NULL"

KHRONOS == "VK_LAYER_KHRONOS_validation"
LUNARG == "VK_LAYER_LUNARG_standard_validation"
VK_EXT_DEBUG_UTILS_EXTENSION_NAME == "VK_EXT_debug_utils"
VK_KHR_SURFACE_EXTENSION_NAME == "VK_KHR_surface"
VK_KHR_DISPLAY_EXTENSION_NAME == "VK_KHR_display"
WAYLAND == "VK_KHR_wayland_surface"
XCB == "VK_KHR_xcb_surface"
XLIB == "VK_KHR_xlib_surface"
WIN32 == "VK_KHR_win32_surface"

\* the build: which #if branch of lines 356-373 is compiled, and the width
\* of long (LP64 on linux and apple, LLP64 on win32)
Platforms == {"linux", "win32", "apple"}
LongBits(p) == IF p = "win32" THEN 32 ELSE 64

VkResults == {"VK_SUCCESS", "VK_ERROR"}

\* what the driver may answer to the discovery queries
LayerCatalog == {KHRONOS, LUNARG, "VK_LAYER_other"}
LayerExtCatalog == {VK_EXT_DEBUG_UTILS_EXTENSION_NAME, "VK_EXT_other"}
DriverExtCatalog == {VK_KHR_SURFACE_EXTENSION_NAME, VK_KHR_DISPLAY_EXTENSION_NAME,
                     WAYLAND, XCB, XLIB, WIN32, VK_EXT_DEBUG_UTILS_EXTENSION_NAME}

SeqsUpTo(S, n) == UNION {[1..m -> S] : m \in 0..n}
NonEmptySeqsUpTo(S, n) == UNION {[1..m -> S] : m \in 1..n}
SeqToSet(s) == {s[i] : i \in 1..Len(s)}
NoDuplicates(s) == \A i, j \in 1..Len(s) : s[i] = s[j] => i = j

VARIABLES
    pc,                              \* position in main / the exit sequence
    verbose, list_available_devices, \* argparse results (lines 67-68)
    device_name,                     \* argparse result (line 69)
    platform,                        \* the build
    exit_status,                     \* how the process ended
    logged,                          \* the last log_fatal / log_error line
    atexit_handlers,                 \* handlers registered with atexit
    calls,                           \* the library/driver calls made, in order
    instance_, debug_messenger_,
    supports_EXT_debug_utils_, supports_KHR_surface_, supports_KHR_display_,
    layer_count, layer_names,        \* locals of initialize_instance
    extension_count, extension_names,
    k,                               \* loop variable of lines 302-323
    layer_query, layer_ext_query, driver_ext_query, \* what the driver listed
    result,                          \* VkResult result of line 113 and the query that set it
    num_physical_devices, phyiscal_device_properties,
    selected_physical_device_index,
    context_,                        \* the Context record (lines 41-52)
    ctx_calls,                       \* the destroy calls of destroy_context
    ctx_history                      \* which Context operations have run

vars == <<pc, verbose, list_available_devices, device_name, platform, exit_status,
          logged, atexit_handlers, calls, instance_, debug_messenger_,
          supports_EXT_debug_utils_, supports_KHR_surface_, supports_KHR_display_,
          layer_count, layer_names, extension_count, extension_names, k,
          layer_query, layer_ext_query, driver_ext_query,
          result, num_physical_devices, phyiscal_device_properties,
          selected_physical_device_index, context_, ctx_calls, ctx_history>>

argVars == <<verbose, list_available_devices, device_name, platform>>
negotiationVars == <<layer_count, layer_names, extension_count, extension_names, k,
                     layer_query, layer_ext_query, driver_ext_query,
                     supports_EXT_debug_utils_, supports_KHR_surface_,
                     supports_KHR_display_>>
instanceVars == <<instance_, debug_messenger_>>
deviceVars == <<result, num_physical_devices, phyiscal_device_properties,
                selected_physical_device_index>>
ctxVars == <<context_, ctx_calls, ctx_history>>

\* ------------------------------------------------------------ termination
\* Abort with a seeded fault: the failure is reported through exit(-1)
AbortThroughExit(msg) ==
    /\ pc' = "exiting"
    /\ exit_status' = "-1"
    /\ logged' = msg

\* abort(): SIGABRT, the atexit handlers do not run
Abort(msg) ==
    /\ pc' = "terminated"
    /\ exit_status' = "abort"
    /\ logged' = msg

\* exit(code), or return code from main: the atexit handlers run first
Exit(code) ==
    /\ pc' = "exiting"
    /\ exit_status' = code

\* A store past the end of layer_names or extension_names is undefined
\* behaviour.  Two outcomes are modelled: the store hits guarded or unmapped
\* memory and the process dies (Crash), or it lands behind the array, the count
\* goes on and the slot reads back what was stored (the pc moves on with the
\* longer list).  Outcomes in which the store overwrites another live object
\* are not modelled.
Crash ==
    /\ pc' = "terminated"
    /\ exit_status' = "crash"

\* ------------------------------------------------------------------ main
\* lines 87-92
SDLInit ==
    /\ pc = "SDL_Init"
    /\ \/ /\ Exit("-1")
          /\ logged' = "SDL_Init failed"
          /\ UNCHANGED <<atexit_handlers, calls>>
       \/ /\ pc' = "SDL_Vulkan_LoadLibrary"
          /\ atexit_handlers' = Append(atexit_handlers, "SDL_Quit")
          /\ calls' = Append(calls, "SDL_Init")
          /\ UNCHANGED <<exit_status, logged>>
    /\ UNCHANGED <<argVars, negotiationVars, instanceVars, deviceVars, ctxVars>>

\* lines 95-99
LoadLibrary ==
    /\ pc = "SDL_Vulkan_LoadLibrary"
    /\ \/ /\ Exit("-1")
          /\ logged' = "SDL_Vulkan_LoadLibrary failed"
          /\ UNCHANGED <<atexit_handlers, calls>>
       \/ /\ pc' = "SDL_Vulkan_GetVkGetInstanceProcAddr"
          /\ atexit_handlers' = Append(atexit_handlers, "SDL_Vulkan_UnloadLibrary")
          /\ calls' = Append(calls, "SDL_Vulkan_LoadLibrary")
          /\ UNCHANGED <<exit_status, logged>>
    /\ UNCHANGED <<argVars, negotiationVars, instanceVars, deviceVars, ctxVars>>

\* lines 102-108: the lookup, volkInitializeCustom, entry of initialize_instance
\* (assert(!instance_) holds: instance_ is VK_NULL_HANDLE until line 400)
GetProcAddr ==
    /\ pc = "SDL_Vulkan_GetVkGetInstanceProcAddr"
    /\ \/ /\ Exit("-1")
          /\ logged' = "SDL_Vulkan_GetVkGetInstanceProcAddr failed"
       \/ /\ instance_ = VK_NULL_HANDLE
          /\ pc' = "find_layers"
          /\ UNCHANGED <<exit_status, logged>>
    /\ UNCHANGED <<argVars, negotiationVars, instanceVars, deviceVars, ctxVars,
                   atexit_handlers, calls>>

\* ---------------------------------------------------- initialize_instance
\* ScanLayers with a seeded fault: finding the Khronos layer also requests its LunarG alias
RECURSIVE ScanLayersWithAlias(_, _, _)
ScanLayersWithAlias(properties, i, names) ==
    IF i > Len(properties) THEN names
    ELSE IF properties[i] = KHRONOS
         THEN ScanLayersWithAlias(properties, i + 1, names \o <<KHRONOS, LUNARG>>)
    ELSE IF properties[i] = LUNARG
         THEN ScanLayersWithAlias(properties, i + 1, Append(names, LUNARG))
    ELSE ScanLayersWithAlias(properties, i + 1, names)

\* lines 288-295: the scan of the layer properties; every match is stored at
\* layer_names[layer_count++] with no bound check
RECURSIVE ScanLayers(_, _, _)
ScanLayers(properties, i, names) ==
    IF i > Len(properties) THEN names
    ELSE IF properties[i] = KHRONOS
         THEN ScanLayers(properties, i + 1, Append(names, KHRONOS))
    ELSE IF properties[i] = LUNARG
         THEN ScanLayers(properties, i + 1, Append(names, LUNARG))
    ELSE ScanLayers(properties, i + 1, names)

\* lines 316-321: whether a layer's extension list names the debug-utils extension
ListsDebugUtils(properties) ==
    \E i \in 1..Len(properties) : properties[i] = VK_EXT_DEBUG_UTILS_EXTENSION_NAME

\* lines 356-373: the platform branch of the driver-wide extension scan
PlatformExtensions(p, extname) ==
    IF p = "linux"
    THEN (IF extname = WAYLAND THEN <<WAYLAND>> ELSE <<>>)
         \o (IF extname = XCB THEN <<XCB>> ELSE <<>>)
         \o (IF extname = XLIB THEN <<XLIB>> ELSE <<>>)
    ELSE IF p = "win32"
    THEN (IF extname = WIN32 THEN <<WIN32>> ELSE <<>>)
    ELSE <<>>

\* ScanExtensions with a seeded fault: the driver-wide scan also takes the debug-utils extension
RECURSIVE ScanExtensionsWithDebugUtils(_, _, _, _)
ScanExtensionsWithDebugUtils(properties, i, st, p) ==
    IF i > Len(properties) THEN st
    ELSE IF properties[i] = VK_KHR_SURFACE_EXTENSION_NAME
         THEN ScanExtensionsWithDebugUtils(properties, i + 1,
                  [st EXCEPT !.surface = TRUE,
                             !.names = Append(@, VK_KHR_SURFACE_EXTENSION_NAME)], p)
    ELSE IF properties[i] = VK_KHR_DISPLAY_EXTENSION_NAME
         THEN ScanExtensionsWithDebugUtils(properties, i + 1,
                  [st EXCEPT !.display = TRUE,
                             !.names = Append(@, VK_KHR_DISPLAY_EXTENSION_NAME)], p)
    ELSE IF properties[i] = VK_EXT_DEBUG_UTILS_EXTENSION_NAME
         THEN ScanExtensionsWithDebugUtils(properties, i + 1,
                  [st EXCEPT !.names = Append(@, VK_EXT_DEBUG_UTILS_EXTENSION_NAME)], p)
    ELSE ScanExtensionsWithDebugUtils(properties, i + 1,
                  [st EXCEPT !.names = @ \o PlatformExtensions(p, properties[i])], p)

\* lines 346-375: the scan of the driver-wide extension properties; st is
\* [names, surface, display]: extension_names and the two supports_ flags
RECURSIVE ScanExtensions(_, _, _, _)
ScanExtensions(properties, i, st, p) ==
    IF i > Len(properties) THEN st
    ELSE IF properties[i] = VK_KHR_SURFACE_EXTENSION_NAME
         THEN ScanExtensions(properties, i + 1,
                  [st EXCEPT !.surface = TRUE,
                             !.names = Append(@, VK_KHR_SURFACE_EXTENSION_NAME)], p)
    ELSE IF properties[i] = VK_KHR_DISPLAY_EXTENSION_NAME
         THEN ScanExtensions(properties, i + 1,
                  [st EXCEPT !.display = TRUE,
                             !.names = Append(@, VK_KHR_DISPLAY_EXTENSION_NAME)], p)
    ELSE ScanExtensions(properties, i + 1,
                  [st EXCEPT !.names = @ \o PlatformExtensions(p, properties[i])], p)

\* lines 273-300: find validation layers, then reset supports_EXT_debug_utils_
\* (either vkEnumerateInstanceLayerProperties call failing aborts; more than
\* LayerNamesCap matches store past layer_names)
FindLayers ==
    /\ pc = "find_layers"
    /\ \/ /\ ~verbose
          /\ layer_count' = 0
          /\ pc' = "find_debug_extensions"
          /\ UNCHANGED <<layer_names, layer_query, exit_status, logged>>
       \/ /\ verbose
          /\ Abort("vkEnumerateInstanceLayerProperties failed")
          /\ UNCHANGED <<layer_count, layer_names, layer_query>>
       \/ /\ verbose
          /\ \E properties \in SeqsUpTo(LayerCatalog, MaxLayerProps) :
               LET names == ScanLayers(properties, 1, <<>>) IN
               /\ layer_query' = SeqToSet(properties)
               /\ layer_names' = names
               /\ layer_count' = Len(names)
               /\ \/ /\ pc' = "find_debug_extensions"
                     /\ UNCHANGED exit_status
                  \/ /\ Len(names) > LayerNamesCap
                     /\ Crash
          /\ UNCHANGED logged
    /\ supports_EXT_debug_utils_' = FALSE
    /\ k' = 0
    /\ UNCHANGED <<argVars, instanceVars, deviceVars, ctxVars, atexit_handlers, calls,
                   extension_count, extension_names, layer_ext_query, driver_ext_query,
                   supports_KHR_surface_, supports_KHR_display_>>

\* lines 302-323, one iteration: the extensions of layer_names[k]
QueryLayerExtensions ==
    /\ pc = "find_debug_extensions"
    /\ verbose
    /\ k < layer_count
    /\ \/ /\ Abort("vkEnumerateInstanceExtensionProperties failed")
          /\ UNCHANGED <<supports_EXT_debug_utils_, layer_ext_query, k>>
       \/ /\ \E properties \in SeqsUpTo(LayerExtCatalog, MaxExtProps) :
               /\ supports_EXT_debug_utils_' =
                      (supports_EXT_debug_utils_ \/ ListsDebugUtils(properties))
               /\ layer_ext_query' = layer_ext_query \cup SeqToSet(properties)
          /\ k' = k + 1
          /\ UNCHANGED <<pc, exit_status, logged>>
    /\ UNCHANGED <<argVars, instanceVars, deviceVars, ctxVars, atexit_handlers, calls,
                   layer_count, layer_names, extension_count, extension_names,
                   layer_query, driver_ext_query,
                   supports_KHR_surface_, supports_KHR_display_>>

\* lines 326-331: request the debug-utils extension when a layer offers it
RequestDebugUtils ==
    /\ pc = "find_debug_extensions"
    /\ ~verbose \/ k >= layer_count
    /\ IF supports_EXT_debug_utils_
       THEN /\ extension_names' = Append(extension_names, VK_EXT_DEBUG_UTILS_EXTENSION_NAME)
            /\ extension_count' = extension_count + 1
       ELSE UNCHANGED <<extension_names, extension_count>>
    /\ supports_KHR_surface_' = FALSE
    /\ supports_KHR_display_' = FALSE
    /\ pc' = "find_surface_extensions"
    /\ UNCHANGED <<argVars, instanceVars, deviceVars, ctxVars, atexit_handlers, calls,
                   exit_status, logged, layer_count, layer_names, k,
                   layer_query, layer_ext_query, driver_ext_query,
                   supports_EXT_debug_utils_>>

\* lines 332-377: find surface extensions (either query call failing aborts;
\* more than ExtensionNamesCap names store past extension_names)
FindSurfaceExtensions ==
    /\ pc = "find_surface_extensions"
    /\ \/ /\ Abort("vkEnumerateInstanceExtensionProperties failed")
          /\ UNCHANGED <<extension_names, extension_count, driver_ext_query,
                         supports_KHR_surface_, supports_KHR_display_>>
       \/ /\ \E properties \in SeqsUpTo(DriverExtCatalog, MaxExtProps) :
               LET st == ScanExtensions(properties, 1,
                             [names |-> extension_names,
                              surface |-> FALSE, display |-> FALSE], platform) IN
               /\ driver_ext_query' = SeqToSet(properties)
               /\ extension_names' = st.names
               /\ extension_count' = Len(st.names)
               /\ supports_KHR_surface_' = st.surface
               /\ supports_KHR_display_' = st.display
               /\ \/ /\ pc' = "vkCreateInstance"
                     /\ UNCHANGED exit_status
                  \/ /\ Len(st.names) > ExtensionNamesCap
                     /\ Crash
          /\ UNCHANGED logged
    /\ UNCHANGED <<argVars, instanceVars, deviceVars, ctxVars, atexit_handlers, calls,
                   layer_count, layer_names, k, layer_query, layer_ext_query,
                   supports_EXT_debug_utils_>>

\* lines 109, 413: initialize_instance returns (its locals die) and main
\* registers destroy_instance
ReturnFromInitializeInstance ==
    /\ atexit_handlers' = Append(atexit_handlers, "destroy_instance")
    /\ layer_count' = 0
    /\ layer_names' = <<>>
    /\ extension_count' = 0
    /\ extension_names' = <<>>
    /\ k' = 0
    /\ layer_query' = {}
    /\ layer_ext_query' = {}
    /\ driver_ext_query' = {}
    /\ pc' = "vkEnumeratePhysicalDevices"

\* lines 379-412: vkCreateInstance with layer_names[0..layer_count) and
\* extension_names[0..extension_count), then volkLoadInstance
CreateInstance ==
    /\ pc = "vkCreateInstance"
    /\ \/ /\ Abort("vkCreateInstance failed")
          /\ UNCHANGED <<instance_, calls, atexit_handlers, layer_count, layer_names,
                         extension_count, extension_names, k,
                         layer_query, layer_ext_query, driver_ext_query>>
       \/ /\ instance_' = "VkInstance"
          /\ calls' = Append(calls, "vkCreateInstance")
          /\ IF verbose /\ supports_EXT_debug_utils_
             THEN /\ pc' = "init_debug_utils"
                  /\ UNCHANGED <<atexit_handlers, layer_count, layer_names,
                                 extension_count, extension_names, k,
                                 layer_query, layer_ext_query, driver_ext_query>>
             ELSE ReturnFromInitializeInstance
          /\ UNCHANGED <<exit_status, logged>>
    /\ UNCHANGED <<argVars, deviceVars, ctxVars, debug_messenger_,
                   supports_EXT_debug_utils_, supports_KHR_surface_,
                   supports_KHR_display_>>

\* lines 243-260: init_debug_utils
InitDebugUtils ==
    /\ pc = "init_debug_utils"
    /\ \/ /\ Abort("vkCreateDebugUtilsMessengerEXT failed")
          /\ UNCHANGED <<debug_messenger_, calls, atexit_handlers, layer_count,
                         layer_names, extension_count, extension_names, k,
                         layer_query, layer_ext_query, driver_ext_query>>
       \/ /\ debug_messenger_' = "VkDebugUtilsMessengerEXT"
          /\ calls' = Append(calls, "vkCreateDebugUtilsMessengerEXT")
          /\ ReturnFromInitializeInstance
          /\ UNCHANGED <<exit_status, logged>>
    /\ UNCHANGED <<argVars, deviceVars, ctxVars, instance_,
                   supports_EXT_debug_utils_, supports_KHR_surface_,
                   supports_KHR_display_>>

\* DestroyInstanceCalls with a seeded fault: the instance is destroyed before its messenger
DestroyInstanceCallsInstanceFirst ==
    <<"vkDestroyInstance">>
    \o (IF debug_messenger_ # VK_NULL_HANDLE
        THEN <<"vkDestroyDebugUtilsMessengerEXT">> ELSE <<>>)

\* lines 415-422: destroy_instance, run as an atexit handler
DestroyInstanceCalls ==
    (IF debug_messenger_ # VK_NULL_HANDLE
     THEN <<"vkDestroyDebugUtilsMessengerEXT">> ELSE <<>>)
    \o <<"vkDestroyInstance">>

\* RunAtExit with a seeded fault: the handlers run in the order of their registration
RunAtExitInRegistrationOrder ==
    /\ pc = "exiting"
    /\ IF atexit_handlers = <<>>
       THEN /\ pc' = "terminated"
            /\ UNCHANGED <<atexit_handlers, calls>>
       ELSE LET handler == Head(atexit_handlers) IN
            /\ atexit_handlers' = Tail(atexit_handlers)
            /\ calls' = calls \o (IF handler = "destroy_instance"
                                  THEN DestroyInstanceCalls ELSE <<handler>>)
            /\ UNCHANGED pc
    /\ UNCHANGED <<argVars, negotiationVars, instanceVars, deviceVars, ctxVars,
                   exit_status, logged>>

\* exit(): the registered handlers run in reverse order of registration
RunAtExit ==
    /\ pc = "exiting"
    /\ IF atexit_handlers = <<>>
       THEN /\ pc' = "terminated"
            /\ UNCHANGED <<atexit_handlers, calls>>
       ELSE LET n == Len(atexit_handlers)
                handler == atexit_handlers[n] IN
            /\ atexit_handlers' = SubSeq(atexit_handlers, 1, n - 1)
            /\ calls' = calls \o (IF handler = "destroy_instance"
                                  THEN DestroyInstanceCalls ELSE <<handler>>)
            /\ UNCHANGED pc
    /\ UNCHANGED <<argVars, negotiationVars, instanceVars, deviceVars, ctxVars,
                   exit_status, logged>>

\* ------------------------------------------------------ C library strings
LowerHex == <<"0", "1", "2", "3", "4", "5", "6", "7", "8", "9",
              "a", "b", "c", "d", "e", "f">>
UpperHex == <<"0", "1", "2", "3", "4", "5", "6", "7", "8", "9",
              "A", "B", "C", "D", "E", "F">>
IsHexDigit(c) == \E d \in 1..16 : c = LowerHex[d] \/ c = UpperHex[d]
DigitOf(c) == (CHOOSE d \in 1..16 : c = LowerHex[d] \/ c = UpperHex[d]) - 1

\* the digits of the longest run of hexadecimal digits of s from position i
RECURSIVE HexRun(_, _)
HexRun(s, i) ==
    IF i > Len(s) \/ ~IsHexDigit(s[i]) THEN <<>>
    ELSE <<DigitOf(s[i])>> \o HexRun(s, i + 1)

RECURSIVE StripZeros(_)
StripZeros(d) == IF d # <<>> /\ d[1] = 0 THEN StripZeros(Tail(d)) ELSE d

\* LONG_MAX of a long of the given width
LongMax(bits) == <<7>> \o [i \in 1..((bits \div 4) - 1) |-> 15]

\* strtol(s, NULL, 16) of a string with no leading blank or sign (the only
\* call, line 156, passes a string that begins with "0x"): the "0x" prefix is
\* skipped when a hexadecimal digit follows it, the digits up to the first
\* other character are the value, and a value above LONG_MAX gives LONG_MAX
Strtol16(s, bits) ==
    LET start == IF /\ Len(s) >= 3
                    /\ s[1] = "0"
                    /\ s[2] \in {"x", "X"}
                    /\ IsHexDigit(s[3])
                 THEN 3 ELSE 1
        digits == StripZeros(HexRun(s, start))
        nd == bits \div 4
    IN  IF Len(digits) > nd \/ (Len(digits) = nd /\ digits[1] >= 8)
        THEN LongMax(bits)
        ELSE digits

\* the conversion of a non-negative long to uint32_t (line 156): modulo 2^32
ToUint32(v) ==
    StripZeros(IF Len(v) > 8 THEN SubSeq(v, Len(v) - 7, Len(v)) ELSE v)

\* strncmp(s, "0x", 2) == 0
StartsWith0x(s) == Len(s) >= 2 /\ s[1] = "0" /\ s[2] = "x"

\* strstr(haystack, needle) != NULL
Strstr(haystack, needle) ==
    \E off \in 0..(Len(haystack) - Len(needle)) :
        SubSeq(haystack, off + 1, off + Len(needle)) = needle

\* ------------------------------------------------------- device selection
\* lines 157-162: first index whose deviceID is id, or -1
RECURSIVE FirstById(_, _, _)
FirstById(props, id, i) ==
    IF i >= Len(props) THEN -1
    ELSE IF props[i + 1].deviceID = id THEN i
    ELSE FirstById(props, id, i + 1)

\* lines 164-169: first index whose deviceName is the hint, or -1
RECURSIVE FirstByName(_, _, _)
FirstByName(props, name, i) ==
    IF i >= Len(props) THEN -1
    ELSE IF props[i + 1].deviceName = name THEN i
    ELSE FirstByName(props, name, i + 1)

\* lines 171-176: first index whose deviceName contains the hint, or -1
RECURSIVE FirstBySubstring(_, _, _)
FirstBySubstring(props, name, i) ==
    IF i >= Len(props) THEN -1
    ELSE IF Strstr(props[i + 1].deviceName, name) THEN i
    ELSE FirstBySubstring(props, name, i + 1)

\* lines 152-182
SelectPhysicalDevice(props, hint, bits) ==
    LET found ==
            IF hint.present
            THEN IF StartsWith0x(hint.s)
                 THEN FirstById(props, ToUint32(Strtol16(hint.s, bits)), 0)
                 ELSE LET exact == FirstByName(props, hint.s, 0) IN
                      IF exact = -1 THEN FirstBySubstring(props, hint.s, 0)
                      ELSE exact
            ELSE -1
    IN  IF found = -1 THEN 0 ELSE found

\* the device descriptors and the -d hints of the model
Alpha == <<"A", "l", "p", "h", "a">>
Beta == <<"B", "e", "t", "a">>
BetaPro == <<"B", "e", "t", "a", "P", "r", "o">>
DeviceNames == {Alpha, Beta, BetaPro}
DeviceIDs == {<<1, 0>>, <<2, 1>>}
DeviceProps == [deviceName : DeviceNames, deviceID : DeviceIDs]
NoHint == [present |-> FALSE, s |-> <<>>]
Hint(str) == [present |-> TRUE, s |-> str]
Hints == {NoHint, Hint(Beta), Hint(<<"e", "t", "a">>),
          Hint(<<"G", "a", "m", "m", "a">>), Hint(<<>>),
          Hint(<<"0", "x", "2", "1">>), Hint(<<"0", "x", "1", "0">>),
          Hint(<<"0", "x", "3", "0">>),
          Hint(<<"0", "x", "1", "0", "0", "0", "0", "0", "0", "1", "0">>)}
MainHints == {NoHint, Hint(Beta)}

\* no query of the device enumeration has run
NoResult == [query |-> "none", code |-> "VK_SUCCESS"]

\* CountDevices with a seeded fault: the count is tested before the result of the query
CountDevicesCountFirst ==
    /\ pc = "vkEnumeratePhysicalDevices"
    /\ \E code \in VkResults, n \in 0..MaxDevices :
         /\ result' = [query |-> "count", code |-> code]
         /\ num_physical_devices' = n
         /\ IF n = 0
            THEN /\ Exit("1")
                 /\ logged' = "No available physical device found"
            ELSE IF code # "VK_SUCCESS"
            THEN /\ Exit("-1")
                 /\ logged' = "vkEnumeratePhysicalDevices failed"
            ELSE /\ pc' = "get_physical_devices"
                 /\ UNCHANGED <<exit_status, logged>>
    /\ UNCHANGED <<argVars, negotiationVars, instanceVars, ctxVars, atexit_handlers,
                   calls, phyiscal_device_properties, selected_physical_device_index>>

\* lines 113-124: the device-count query
CountDevices ==
    /\ pc = "vkEnumeratePhysicalDevices"
    /\ \E code \in VkResults, n \in 0..MaxDevices :
         /\ result' = [query |-> "count", code |-> code]
         /\ num_physical_devices' = n
         /\ IF code # "VK_SUCCESS"
            THEN /\ Exit("-1")
                 /\ logged' = "vkEnumeratePhysicalDevices failed"
            ELSE IF n = 0
            THEN /\ Exit("1")
                 /\ logged' = "No available physical device found"
            ELSE /\ pc' = "get_physical_devices"
                 /\ UNCHANGED <<exit_status, logged>>
    /\ UNCHANGED <<argVars, negotiationVars, instanceVars, ctxVars, atexit_handlers,
                   calls, phyiscal_device_properties, selected_physical_device_index>>

\* lines 126-136: the handles, then the properties of every device
GetPhysicalDevices ==
    /\ pc = "get_physical_devices"
    /\ \/ /\ result' = [query |-> "handles", code |-> "VK_ERROR"]
          /\ Exit("-1")
          /\ logged' = "vkEnumeratePhysicalDevices failed"
          /\ UNCHANGED phyiscal_device_properties
       \/ /\ result' = [query |-> "handles", code |-> "VK_SUCCESS"]
          /\ phyiscal_device_properties' \in [1..num_physical_devices -> DeviceProps]
          /\ pc' = "list_or_select"
          /\ UNCHANGED <<exit_status, logged>>
    /\ UNCHANGED <<argVars, negotiationVars, instanceVars, ctxVars, atexit_handlers,
                   calls, num_physical_devices, selected_physical_device_index>>

\* lines 139-150: --list-devices prints the devices and returns 0
ListDevices ==
    /\ pc = "list_or_select"
    /\ list_available_devices
    /\ Exit("0")
    /\ UNCHANGED <<argVars, negotiationVars, instanceVars, deviceVars, ctxVars,
                   atexit_handlers, calls, logged>>

\* lines 152-189: select a device, log it, return 0
SelectDevice ==
    /\ pc = "list_or_select"
    /\ ~list_available_devices
    /\ selected_physical_device_index' =
           SelectPhysicalDevice(phyiscal_device_properties, device_name,
                                LongBits(platform))
    /\ Exit("0")
    /\ UNCHANGED <<argVars, negotiationVars, instanceVars, ctxVars, atexit_handlers,
                   calls, logged, result, num_physical_devices,
                   phyiscal_device_properties>>

\* ---------------------------------------------------------------- Context
\* lines 41-52: the static initializer of context_
StaticContext ==
    [physical_device |-> VK_NULL_HANDLE, device |-> VK_NULL_HANDLE,
     allocator |-> VK_NULL_HANDLE, surface |-> VK_NULL_HANDLE,
     swapchain |-> VK_NULL_HANDLE, supports_KHR_swapchain |-> FALSE,
     graphics_queue_family |-> "UINT32_MAX", present_queue_family |-> "UINT32_MAX",
     num_swapchain_images |-> 0, swapchain_images |-> NULL]

PhysicalDevices == {VK_NULL_HANDLE, "VkPhysicalDevice"}
Surfaces == {VK_NULL_HANDLE, "VkSurfaceKHR"}

\* every population of the handle fields of a Context
ContextStates ==
    {[StaticContext EXCEPT !.physical_device = pd, !.device = dev, !.allocator = al,
                           !.surface = su, !.swapchain = sw, !.swapchain_images = im] :
        pd \in PhysicalDevices, dev \in {VK_NULL_HANDLE, "VkDevice"},
        al \in {VK_NULL_HANDLE, "VmaAllocator"}, su \in Surfaces,
        sw \in {VK_NULL_HANDLE, "VkSwapchainKHR"}, im \in {NULL, "VkImage*"}}

\* DestroyContextCalls with a seeded fault: the device is destroyed before its swapchain
DestroyContextCallsDeviceFirst(c) ==
    (IF c.allocator # VK_NULL_HANDLE THEN <<"vmaDestroyAllocator">> ELSE <<>>)
    \o (IF c.swapchain_images # NULL THEN <<"free">> ELSE <<>>)
    \o (IF c.device # VK_NULL_HANDLE THEN <<"vkDestroyDevice">> ELSE <<>>)
    \o (IF c.swapchain # VK_NULL_HANDLE THEN <<"vkDestroySwapchain">> ELSE <<>>)
    \o (IF c.surface # VK_NULL_HANDLE THEN <<"vkDestroySurfaceKHR">> ELSE <<>>)

\* lines 202-218: the destroy calls of destroy_context, in the order it makes them
DestroyContextCalls(c) ==
    (IF c.allocator # VK_NULL_HANDLE THEN <<"vmaDestroyAllocator">> ELSE <<>>)
    \o (IF c.swapchain_images # NULL THEN <<"free">> ELSE <<>>)
    \o (IF c.swapchain # VK_NULL_HANDLE THEN <<"vkDestroySwapchain">> ELSE <<>>)
    \o (IF c.device # VK_NULL_HANDLE THEN <<"vkDestroyDevice">> ELSE <<>>)
    \o (IF c.surface # VK_NULL_HANDLE THEN <<"vkDestroySurfaceKHR">> ELSE <<>>)

\* lines 192-200: initialize_context
InitializeContext ==
    /\ pc = "context"
    /\ ctx_history \in {<<"static">>, <<"populated">>}
    /\ \E physical_device \in PhysicalDevices, surface \in Surfaces :
         context_' = [context_ EXCEPT !.physical_device = physical_device,
                                      !.surface = surface]
    /\ ctx_history' = Append(ctx_history, "initialize_context")
    /\ UNCHANGED <<pc, argVars, negotiationVars, instanceVars, deviceVars,
                   exit_status, logged, atexit_handlers, calls, ctx_calls>>

\* lines 202-218: destroy_context (the fields keep their values)
DestroyContext ==
    /\ pc = "context"
    /\ ctx_history[Len(ctx_history)] # "destroy_context"
    /\ ctx_calls' = DestroyContextCalls(context_)
    /\ ctx_history' = Append(ctx_history, "destroy_context")
    /\ UNCHANGED <<pc, argVars, negotiationVars, instanceVars, deviceVars,
                   exit_status, logged, atexit_handlers, calls, context_>>

\* --------------------------------------------------------- specifications
\* the process at the first statement of main that acts (line 87)
Init ==
    /\ pc = "SDL_Init"
    /\ verbose \in BOOLEAN
    /\ list_available_devices \in BOOLEAN
    /\ device_name \in MainHints
    /\ platform \in Platforms
    /\ exit_status = "running"
    /\ logged = ""
    /\ atexit_handlers = <<>>
    /\ calls = <<>>
    /\ instance_ = VK_NULL_HANDLE
    /\ debug_messenger_ = VK_NULL_HANDLE
    /\ supports_EXT_debug_utils_ = FALSE
    /\ supports_KHR_surface_ = FALSE
    /\ supports_KHR_display_ = FALSE
    /\ layer_count = 0
    /\ layer_names = <<>>
    /\ extension_count = 0
    /\ extension_names = <<>>
    /\ k = 0
    /\ layer_query = {}
    /\ layer_ext_query = {}
    /\ driver_ext_query = {}
    /\ result = NoResult
    /\ num_physical_devices = 0
    /\ phyiscal_device_properties = <<>>
    /\ selected_physical_device_index = -1
    /\ context_ = StaticContext
    /\ ctx_calls = <<>>
    /\ ctx_history = <<"static">>

Next ==
    \/ SDLInit
    \/ LoadLibrary
    \/ GetProcAddr
    \/ FindLayers
    \/ QueryLayerExtensions
    \/ RequestDebugUtils
    \/ FindSurfaceExtensions
    \/ CreateInstance
    \/ InitDebugUtils
    \/ CountDevices
    \/ GetPhysicalDevices
    \/ ListDevices
    \/ SelectDevice
    \/ RunAtExit

Spec == Init /\ [][Next]_vars

\* the locals of initialize_instance outside its activation
NoNegotiation ==
    /\ layer_count = 0
    /\ layer_names = <<>>
    /\ extension_count = 0
    /\ extension_names = <<>>
    /\ k = 0
    /\ layer_query = {}
    /\ layer_ext_query = {}
    /\ driver_ext_query = {}

\* device selection on its own: main at line 139, after a run without
\* --verbose has created the instance and fetched the device properties
InitSelect ==
    /\ pc = "list_or_select"
    /\ verbose = FALSE
    /\ list_available_devices \in BOOLEAN
    /\ device_name \in Hints
    /\ platform \in Platforms
    /\ exit_status = "running"
    /\ logged = ""
    /\ atexit_handlers = <<"SDL_Quit", "SDL_Vulkan_UnloadLibrary", "destroy_instance">>
    /\ calls = <<"SDL_Init", "SDL_Vulkan_LoadLibrary", "vkCreateInstance">>
    /\ instance_ = "VkInstance"
    /\ debug_messenger_ = VK_NULL_HANDLE
    /\ supports_EXT_debug_utils_ = FALSE
    /\ supports_KHR_surface_ \in BOOLEAN
    /\ supports_KHR_display_ = FALSE
    /\ NoNegotiation
    /\ result = [query |-> "handles", code |-> "VK_SUCCESS"]
    /\ num_physical_devices \in 1..MaxDevices
    /\ phyiscal_device_properties \in [1..num_physical_devices -> DeviceProps]
    /\ selected_physical_device_index = -1
    /\ context_ = StaticContext
    /\ ctx_calls = <<>>
    /\ ctx_history = <<"static">>

NextSelect ==
    \/ ListDevices
    \/ SelectDevice
    \/ RunAtExit

SpecSelect == InitSelect /\ [][NextSelect]_vars

\* the Context operations on their own (main calls neither): context_ holds
\* its static initializer or any population of its handle fields
InitCtx ==
    /\ pc = "context"
    /\ verbose = FALSE
    /\ list_available_devices = FALSE
    /\ device_name = NoHint
    /\ platform \in Platforms
    /\ exit_status = "running"
    /\ logged = ""
    /\ atexit_handlers = <<"SDL_Quit", "SDL_Vulkan_UnloadLibrary", "destroy_instance">>
    /\ calls = <<"SDL_Init", "SDL_Vulkan_LoadLibrary", "vkCreateInstance">>
    /\ instance_ = "VkInstance"
    /\ debug_messenger_ = VK_NULL_HANDLE
    /\ supports_EXT_debug_utils_ = FALSE
    /\ supports_KHR_surface_ = FALSE
    /\ supports_KHR_display_ = FALSE
    /\ NoNegotiation
    /\ result = [query |-> "handles", code |-> "VK_SUCCESS"]
    /\ num_physical_devices = 1
    /\ phyiscal_device_properties = <<[deviceName |-> Alpha, deviceID |-> <<1, 0>>]>>
    /\ selected_physical_device_index = 0
    /\ context_ \in ContextStates
    /\ ctx_calls = <<>>
    /\ ctx_history = IF context_ = StaticContext THEN <<"static">> ELSE <<"populated">>

NextCtx ==
    \/ InitializeContext
    \/ DestroyContext

SpecCtx == InitCtx /\ [][NextCtx]_vars

\* ================================================================= claims
Count(seq, x) == Cardinality({i \in 1..Len(seq) : seq[i] = x})
Positions(seq, x) == {i \in 1..Len(seq) : seq[i] = x}
MinOf(S) == CHOOSE x \in S : \A y \in S : x <= y
Before(seq, x, y) == \A i \in Positions(seq, x), j \in Positions(seq, y) : i < j

\* the hexadecimal number written after the "0x" of a hint
HintHexValue(s) == StripZeros(HexRun(s, 3))

\* the index the selection contract names for a descriptor list and a hint
ContractSelection(props, hint) ==
    LET idx == 0..(Len(props) - 1)
        byId == {i \in idx : props[i + 1].deviceID = HintHexValue(hint.s)}
        exact == {i \in idx : props[i + 1].deviceName = hint.s}
        containing == {i \in idx : Strstr(props[i + 1].deviceName, hint.s)}
        matches == IF ~hint.present THEN {}
                   ELSE IF StartsWith0x(hint.s) THEN byId
                   ELSE IF exact # {} THEN exact
                   ELSE containing
    IN  IF matches = {} THEN 0 ELSE MinOf(matches)

Selected == selected_physical_device_index # -1

\* C1: once main has selected a device, the selected index is the one the
\* contract names: with a "0x" hint the first index whose deviceID equals the
\* hexadecimal number of the hint, else the first exact name match, else the
\* first substring match, else (no hint, no match) index 0.
C1_SelectionFollowsContract ==
    Selected =>
        selected_physical_device_index =
            ContractSelection(phyiscal_device_properties, device_name)

\* C1 (supplement): the same statement restricted to hints whose hexadecimal
\* number fits the 32 bits of a deviceID and the positive range of long.
C1_SelectionFollowsContractWhenIdFits ==
    (Selected /\ (StartsWith0x(device_name.s) =>
                      Len(HintHexValue(device_name.s)) < 8)) =>
        selected_physical_device_index =
            ContractSelection(phyiscal_device_properties, device_name)

\* C2: every requested layer was listed by the layer query, the debug-utils
\* extension is requested only if a negotiated layer's extension query listed
\* it, and every other requested extension was listed by the driver-wide query.
C2_NoInventedNames ==
    /\ \A i \in 1..Len(layer_names) : layer_names[i] \in layer_query
    /\ \A i \in 1..Len(extension_names) :
         IF extension_names[i] = VK_EXT_DEBUG_UTILS_EXTENSION_NAME
         THEN extension_names[i] \in layer_ext_query
         ELSE extension_names[i] \in driver_ext_query

C2_Witness ==
    /\ pc = "vkCreateInstance"
    /\ layer_count >= 1
    /\ extension_count >= 2
    /\ extension_names[1] = VK_EXT_DEBUG_UTILS_EXTENSION_NAME

\* C3: without --verbose nothing of the debug path is requested or created,
\* whatever the driver lists: no layer, supports_EXT_debug_utils_ false, no
\* debug-utils extension, no debug messenger.
C3_NoDebugWithoutVerbose ==
    ~verbose =>
        /\ layer_count = 0
        /\ layer_names = <<>>
        /\ ~supports_EXT_debug_utils_
        /\ \A i \in 1..Len(extension_names) :
               extension_names[i] # VK_EXT_DEBUG_UTILS_EXTENSION_NAME
        /\ debug_messenger_ = VK_NULL_HANDLE
        /\ Count(calls, "vkCreateDebugUtilsMessengerEXT") = 0

C3_Witness ==
    /\ ~verbose
    /\ pc = "vkCreateInstance"
    /\ VK_EXT_DEBUG_UTILS_EXTENSION_NAME \in driver_ext_query
    /\ extension_count >= 1

\* C4: a device count of zero ends the process with exit code 1 before any
\* device is selected; a failing device-count query ends it with exit code -1.
C4_ZeroDevicesAndFailedCount ==
    /\ (result = [query |-> "count", code |-> "VK_SUCCESS"]
          /\ num_physical_devices = 0) =>
         /\ exit_status = "1"
         /\ ~Selected
         /\ phyiscal_device_properties = <<>>
    /\ (result.query = "count" /\ result.code # "VK_SUCCESS") =>
         /\ exit_status = "-1"
         /\ ~Selected
         /\ phyiscal_device_properties = <<>>

C4_Witness ==
    /\ pc = "terminated"
    /\ exit_status = "1"
    /\ result = [query |-> "count", code |-> "VK_SUCCESS"]
    /\ num_physical_devices = 0
    /\ instance_ # VK_NULL_HANDLE

\* the failures main detects, and those initialize_instance / init_debug_utils detect
MainFatal == {"SDL_Init failed", "SDL_Vulkan_LoadLibrary failed",
              "SDL_Vulkan_GetVkGetInstanceProcAddr failed",
              "vkEnumeratePhysicalDevices failed"}
InstanceFatal == {"vkEnumerateInstanceLayerProperties failed",
                  "vkEnumerateInstanceExtensionProperties failed",
                  "vkCreateInstance failed",
                  "vkCreateDebugUtilsMessengerEXT failed"}

\* C5 (as claimed): every fatal failure ends the process with exit code -1,
\* exit code 0 only on success and exit code 1 only for zero devices.
C5_EveryFatalExitsMinusOne ==
    /\ logged \in MainFatal \cup InstanceFatal => exit_status = "-1"
    /\ exit_status = "0" => logged = ""
    /\ exit_status = "1" => logged = "No available physical device found"

\* C5 (amended): a failure main detects ends the process with exit code -1; a
\* failure initialize_instance or init_debug_utils detects ends it by abort(),
\* with no exit code; exit code 0 only on success (a selected device or the
\* --list-devices exit) and exit code 1 only for zero devices.
C5_FatalExitsOrAborts ==
    /\ logged \in MainFatal => exit_status = "-1"
    /\ logged \in InstanceFatal => exit_status = "abort"
    /\ exit_status = "-1" => logged \in MainFatal
    /\ exit_status = "abort" => logged \in InstanceFatal
    /\ exit_status = "0" =>
         /\ logged = ""
         /\ list_available_devices \/ Selected
    /\ exit_status = "1" <=> logged = "No available physical device found"

C5_Witness ==
    /\ pc = "terminated"
    /\ exit_status = "abort"
    /\ logged = "vkCreateInstance failed"

\* C6: the debug messenger is created only when the debug-utils extension was
\* negotiated; destroy_instance destroys the messenger right before the
\* instance, and makes no messenger call when none was created.
C6_MessengerOnlyIfNegotiatedAndDestroyedFirst ==
    /\ pc = "init_debug_utils" =>
         /\ supports_EXT_debug_utils_
         /\ \E i \in 1..Len(extension_names) :
                extension_names[i] = VK_EXT_DEBUG_UTILS_EXTENSION_NAME
    /\ (debug_messenger_ # VK_NULL_HANDLE
          \/ Count(calls, "vkCreateDebugUtilsMessengerEXT") > 0) =>
         supports_EXT_debug_utils_
    /\ \A j \in Positions(calls, "vkDestroyInstance") :
         IF debug_messenger_ # VK_NULL_HANDLE
         THEN j > 1 /\ calls[j - 1] = "vkDestroyDebugUtilsMessengerEXT"
         ELSE Count(calls, "vkDestroyDebugUtilsMessengerEXT") = 0
    /\ \A j \in Positions(calls, "vkDestroyDebugUtilsMessengerEXT") :
         /\ debug_messenger_ # VK_NULL_HANDLE
         /\ j < Len(calls)
         /\ calls[j + 1] = "vkDestroyInstance"

C6_Witness ==
    /\ pc = "terminated"
    /\ Count(calls, "vkDestroyDebugUtilsMessengerEXT") = 1
    /\ Count(calls, "vkDestroyInstance") = 1

\* the instance is destroyed once, after its creation and its messenger and
\* before the library is unloaded and SDL is shut down
DestroyedOnceInOrder ==
    /\ Count(calls, "vkDestroyInstance") = 1
    /\ Before(calls, "vkCreateInstance", "vkDestroyInstance")
    /\ Before(calls, "vkCreateDebugUtilsMessengerEXT", "vkDestroyInstance")
    /\ Before(calls, "vkDestroyDebugUtilsMessengerEXT", "vkDestroyInstance")
    /\ Count(calls, "SDL_Vulkan_UnloadLibrary") = 1
    /\ Count(calls, "SDL_Quit") = 1
    /\ Before(calls, "vkDestroyInstance", "SDL_Vulkan_UnloadLibrary")
    /\ Before(calls, "SDL_Vulkan_UnloadLibrary", "SDL_Quit")

\* C7 (as claimed): the instance is created at most once, and every run that
\* ends after vkCreateInstance succeeded has destroyed it exactly once, after
\* what it owns and before the library unload and SDL_Quit.
C7_DestroyedOnEveryPathAfterCreation ==
    /\ Count(calls, "vkCreateInstance") <= 1
    /\ (pc = "terminated" /\ Count(calls, "vkCreateInstance") = 1) =>
         DestroyedOnceInOrder

\* C7 (amended): the instance is created at most once and destroyed at most
\* once; every run that ends by return from main or by exit() after
\* vkCreateInstance succeeded has destroyed it exactly once, after what it owns
\* and before the library unload and SDL_Quit; a run that ends by abort()
\* (a failed vkCreateDebugUtilsMessengerEXT) never destroys it.
C7_DestroyedOnEveryExitAfterCreation ==
    /\ Count(calls, "vkCreateInstance") <= 1
    /\ Count(calls, "vkDestroyInstance") <= 1
    /\ Count(calls, "vkDestroyInstance") = 1 => Count(calls, "vkCreateInstance") = 1
    /\ (/\ pc = "terminated"
        /\ exit_status \in {"0", "1", "-1"}
        /\ Count(calls, "vkCreateInstance") = 1) => DestroyedOnceInOrder
    /\ exit_status = "abort" => Count(calls, "vkDestroyInstance") = 0

C7_Witness ==
    /\ pc = "terminated"
    /\ exit_status = "-1"
    /\ debug_messenger_ # VK_NULL_HANDLE
    /\ Count(calls, "vkDestroyInstance") = 1

\* the teardown order of the Context and the field each call releases
DestroyOrder == <<"vmaDestroyAllocator", "free", "vkDestroySwapchain",
                  "vkDestroyDevice", "vkDestroySurfaceKHR">>
Rank(call) == CHOOSE r \in 1..Len(DestroyOrder) : DestroyOrder[r] = call
IsPopulated(c, call) ==
    CASE call = "vmaDestroyAllocator" -> c.allocator # VK_NULL_HANDLE
      [] call = "free" -> c.swapchain_images # NULL
      [] call = "vkDestroySwapchain" -> c.swapchain # VK_NULL_HANDLE
      [] call = "vkDestroyDevice" -> c.device # VK_NULL_HANDLE
      [] call = "vkDestroySurfaceKHR" -> c.surface # VK_NULL_HANDLE

Destroyed == ctx_history[Len(ctx_history)] = "destroy_context"
\* destroy_context ran on a Context on which only initialize_context had run
DestroyedFromDeviceBound ==
    ctx_history = <<"static", "initialize_context", "destroy_context">>

\* every populated field is released once, in the teardown order, and no
\* unpopulated field is released
ReleasesPopulatedFieldsInOrder ==
    /\ \A i, j \in 1..Len(ctx_calls) :
         i < j => Rank(ctx_calls[i]) < Rank(ctx_calls[j])
    /\ \A r \in 1..Len(DestroyOrder) :
         Count(ctx_calls, DestroyOrder[r]) =
             IF IsPopulated(context_, DestroyOrder[r]) THEN 1 ELSE 0

\* C8 (as claimed): destroy_context releases the populated fields in the order
\* allocator, image list, swapchain, device, surface and skips the others; on
\* a Context on which only initialize_context has run it makes no destroy call.
C8_NoDestroyCallWhenDeviceBound ==
    /\ Destroyed => ReleasesPopulatedFieldsInOrder
    /\ DestroyedFromDeviceBound => ctx_calls = <<>>

\* C8 (amended): destroy_context releases the populated fields in the order
\* allocator, image list, swapchain, device, surface and skips the others; on
\* a Context on which only initialize_context has run it destroys the surface
\* initialize_context stored, when that surface is not null, and nothing else.
C8_DestroysOnlySurfaceWhenDeviceBound ==
    /\ Destroyed => ReleasesPopulatedFieldsInOrder
    /\ DestroyedFromDeviceBound =>
         ctx_calls = IF context_.surface # VK_NULL_HANDLE
                     THEN <<"vkDestroySurfaceKHR">> ELSE <<>>

C8_Witness ==
    /\ DestroyedFromDeviceBound
    /\ context_.physical_device # VK_NULL_HANDLE
    /\ context_.surface # VK_NULL_HANDLE
    /\ ctx_calls = <<"vkDestroySurfaceKHR">>

\* C9: the negotiation never counts more names than its arrays hold:
\* layer_count stays within layer_names[2] and extension_count within
\* extension_names[16].
C9_CountsWithinCapacity ==
    /\ layer_count <= LayerNamesCap
    /\ extension_count <= ExtensionNamesCap

\* C10: the lists passed to vkCreateInstance name no layer and no extension twice.
C10_NoNameRequestedTwice ==
    pc = "vkCreateInstance" =>
        /\ NoDuplicates(layer_names)
        /\ NoDuplicates(extension_names)

====
